---------------------------- MODULE Spec2Model ----------------------------
(***************************************************************************)
(* A state-machine model of src/app.js, the client-side layer of a         *)
(* personal portfolio page: the startup sequence PortfolioApp.init, the    *)
(* Navigation listeners (toggle, scroll, link click), the three section    *)
(* renderers with their IntersectionObserver / setTimeout reveal logic,    *)
(* the ContactForm submit handler with its banner timers, and the          *)
(* ScrollAnimations observer.                                              *)
(*                                                                         *)
(* The host (document, event loop, timers, observers) is modelled as the   *)
(* environment: events arrive in any order once startup has finished, a    *)
(* timer fires when its delay has elapsed, and time advances in steps of   *)
(* the delays' common divisor but never past a pending timer.              *)
(***************************************************************************)
EXTENDS Integers, Sequences, FiniteSets, TLC

\* ------------------------------------------------------------------------
\* Bounds of the model (not program constants)
\* ------------------------------------------------------------------------
MaxScrolls == 4
MaxRecords == 2
MaxCallbacks == 3
MaxBanners == 2
NumPageSections == 5

\* ------------------------------------------------------------------------
\* Program constants
\* ------------------------------------------------------------------------
ScrollThreshold == 100
HeaderOffset == 80
SkillStep == 100
PortfolioStep == 150
TimelineStep == 200
BannerDelay == 3000
FadeDelay == 300

Null == "null"

VARIABLES
    present,          \* ids of the elements the document holds
    data,             \* the record lists the controller builds
    step,             \* position of PortfolioApp.init in its constructor calls
    fault,            \* an uncaught exception ended PortfolioApp.init
    listeners,        \* listeners and observers registered so far
    lastEvent,        \* the DOM event dispatched last (history)
    menuActive,       \* navMenu.classList contains 'active'
    navTransform,     \* navbar.style.transform
    lastScroll,       \* the closure variable of Navigation.setupScroll
    scrollLog,        \* offsets of the scroll events handled so far (history)
    scrollRequest,    \* argument of the last window.scrollTo call
    defaultPrevented, \* the last click or submit event had preventDefault called
    html,             \* innerHTML of each section container, as tokens
    cards,            \* per section: the observed children with their inline style
    observed,         \* per section and child: what the observer last reported
    reported,         \* per section and child: ever reported intersecting (history)
    callbacks,        \* number of section-observer callbacks run so far (history)
    timers,           \* pending setTimeout callbacks (callbacks alike in everything are one)
    fields,           \* values of the three contact-form inputs
    banners,          \* message elements appended to the form
    submits,          \* age of every submit of the last BannerDelay+FadeDelay units (history)
    sectionMarked,    \* per page section: classList contains 'fade-in'
    sectionObserved,  \* per page section: what the observer last reported
    sectionSeen       \* per page section: ever reported intersecting (history)

navVars == <<menuActive, navTransform, lastScroll, scrollLog, scrollRequest>>
gridVars == <<html, cards, observed, reported, callbacks>>
formVars == <<fields, banners, submits>>
pageVars == <<sectionMarked, sectionObserved, sectionSeen>>
appVars == <<present, data, step, fault, listeners>>

vars == <<present, data, step, fault, listeners, lastEvent,
          menuActive, navTransform, lastScroll, scrollLog, scrollRequest,
          defaultPrevented, html, cards, observed, reported, callbacks, timers,
          fields, banners, submits, sectionMarked, sectionObserved,
          sectionSeen>>


\* ------------------------------------------------------------------------
\* Records and their markup (Skill, PortfolioItem, TimelineItem)
\* ------------------------------------------------------------------------
\* Markup is a sequence of tokens: start tags with their class list, end
\* tags, void elements, text holding a field's value, and the white space
\* the template literals put between tags.
Tok(k, tag, cls, v) == [k |-> k, tag |-> tag, cls |-> cls, v |-> v]
Open(tag, cls) == Tok("open", tag, cls, "")
Close(tag) == Tok("close", tag, {}, "")
Void(tag) == Tok("void", tag, {}, "")
Text(v) == Tok("text", "", {}, v)
Ws == Tok("ws", "", {}, "")

Skill(name, description, icon) ==
    [name |-> name, description |-> description, icon |-> icon]

PortfolioItem(title, description, tags, image) ==
    [title |-> title, description |-> description, tags |-> tags, image |-> image]

TimelineItem(date, title, company, description) ==
    [date |-> date, title |-> title, company |-> company, description |-> description]

RECURSIVE Join(_)
Join(parts) ==
    IF parts = <<>> THEN <<>> ELSE Head(parts) \o Join(Tail(parts))

SkillToHTML(skill) ==
    << Ws, Open("div", {"skill-card", "fade-in"}),
       Ws, Open("div", {"skill-icon"}), Text(skill.icon), Close("div"),
       Ws, Open("h3", {"skill-name"}), Text(skill.name), Close("h3"),
       Ws, Open("p", {"skill-description"}), Text(skill.description), Close("p"),
       Ws, Close("div"), Ws >>

TagsHTML(tags) ==
    Join([i \in 1..Len(tags) |->
            << Open("span", {"portfolio-tag"}), Text(tags[i]), Close("span") >>])

PortfolioItemToHTML(item) ==
    << Ws, Open("div", {"portfolio-item", "fade-in"}),
       Ws, Open("div", {"portfolio-image"}),
       Ws, Open("svg", {}),
       Ws, Void("rect"), Ws, Void("circle"), Ws, Void("path"),
       Ws, Close("svg"),
       Ws, Close("div"),
       Ws, Open("div", {"portfolio-content"}),
       Ws, Open("h3", {"portfolio-title"}), Text(item.title), Close("h3"),
       Ws, Open("p", {"portfolio-description"}), Text(item.description), Close("p"),
       Ws, Open("div", {"portfolio-tags"}) >>
    \o TagsHTML(item.tags)
    \o << Close("div"), Ws, Close("div"), Ws, Close("div"), Ws >>

TimelineItemToHTML(item) ==
    << Ws, Open("div", {"timeline-item", "slide-in-left"}),
       Ws, Open("div", {"timeline-date"}), Text(item.date), Close("div"),
       Ws, Open("h3", {"timeline-title"}), Text(item.title), Close("h3"),
       Ws, Open("div", {"timeline-company"}), Text(item.company), Close("div"),
       Ws, Open("p", {"timeline-description"}), Text(item.description), Close("p"),
       Ws, Close("div"), Ws >>

Sections == {"skills", "portfolio", "timeline"}

ToHTML(s, record) ==
    CASE s = "skills" -> SkillToHTML(record)
      [] s = "portfolio" -> PortfolioItemToHTML(record)
      [] s = "timeline" -> TimelineItemToHTML(record)

\* ------------------------------------------------------------------------
\* The host's side of innerHTML and querySelectorAll
\* ------------------------------------------------------------------------
\* The element children the host builds from assigned markup: each start
\* tag met at depth 0 opens a child that ends with its matching end tag (or
\* with the markup, if it is never closed); text and stray end tags at
\* depth 0 make no element.
RECURSIVE ParseFrom(_, _, _, _, _)
ParseFrom(toks, i, depth, start, acc) ==
    IF i > Len(toks)
    THEN IF depth > 0 THEN Append(acc, [from |-> start, to |-> Len(toks)]) ELSE acc
    ELSE CASE toks[i].k = "open" ->
                ParseFrom(toks, i + 1, depth + 1, IF depth = 0 THEN i ELSE start, acc)
           [] toks[i].k = "close" ->
                IF depth = 0 THEN ParseFrom(toks, i + 1, 0, 0, acc)
                ELSE IF depth = 1
                     THEN ParseFrom(toks, i + 1, 0, 0,
                                    Append(acc, [from |-> start, to |-> i]))
                     ELSE ParseFrom(toks, i + 1, depth - 1, start, acc)
           [] toks[i].k = "void" ->
                IF depth = 0
                THEN ParseFrom(toks, i + 1, 0, 0, Append(acc, [from |-> i, to |-> i]))
                ELSE ParseFrom(toks, i + 1, depth, start, acc)
           [] OTHER -> ParseFrom(toks, i + 1, depth, start, acc)

Children(toks) == ParseFrom(toks, 1, 0, 0, <<>>)

OuterHTML(toks, child) == SubSeq(toks, child.from, child.to)

\* Positions of the start tags, in document order, whose class list holds cls.
RECURSIVE SelectFrom(_, _, _)
SelectFrom(toks, i, cls) ==
    IF i > Len(toks) THEN <<>>
    ELSE IF toks[i].k = "open" /\ cls \in toks[i].cls
         THEN <<i>> \o SelectFrom(toks, i + 1, cls)
         ELSE SelectFrom(toks, i + 1, cls)

QuerySelectorAll(toks, cls) == SelectFrom(toks, 1, cls)


\* ------------------------------------------------------------------------
\* The document the script runs in
\* ------------------------------------------------------------------------
AllElements ==
    {"navbar", "navToggle", "navMenu", "skillsGrid", "portfolioGrid",
     "timeline", "contactForm", "name", "email", "message"}

\* The hrefs of the '.nav-link' elements, and the offsetTop of the element
\* each one selects (Null: document.querySelector finds nothing).
NavLinks == {"#about", "#skills", "#missing"}

OffsetTop(href) ==
    CASE href = "#about" -> 0
      [] href = "#skills" -> 640
      [] OTHER -> -1

QuerySelector(href) == IF href \in {"#about", "#skills"} THEN href ELSE Null

\* window.pageYOffset as a scroll event may find it.
ScrollOffsets == {0, 50, 100, 120, 150}

ContainerId(s) ==
    CASE s = "skills" -> "skillsGrid"
      [] s = "portfolio" -> "portfolioGrid"
      [] s = "timeline" -> "timeline"

CardClass(s) ==
    CASE s = "skills" -> "skill-card"
      [] s = "portfolio" -> "portfolio-item"
      [] s = "timeline" -> "timeline-item"

HiddenTransform(s) ==
    CASE s = "skills" -> "translateY(20px)"
      [] s = "portfolio" -> "translateY(30px)"
      [] s = "timeline" -> "translateX(-30px)"

VisibleTransform(s) ==
    CASE s = "skills" -> "translateY(0)"
      [] s = "portfolio" -> "translateY(0)"
      [] s = "timeline" -> "translateX(0)"

Step(s) ==
    CASE s = "skills" -> SkillStep
      [] s = "portfolio" -> PortfolioStep
      [] s = "timeline" -> TimelineStep

\* ------------------------------------------------------------------------
\* PortfolioApp.init: the constructors, in order
\* ------------------------------------------------------------------------
InitOrder ==
    << "Navigation", "SkillsGrid", "PortfolioGrid", "Timeline",
       "ContactForm", "ScrollAnimations" >>

PositionOf(component) == CHOOSE i \in 1..Len(InitOrder) : InitOrder[i] = component

RendererOf(s) ==
    CASE s = "skills" -> "SkillsGrid"
      [] s = "portfolio" -> "PortfolioGrid"
      [] s = "timeline" -> "Timeline"

Constructing(component) == ~fault /\ step = PositionOf(component)

\* The DOMContentLoaded handler has returned or died: events are dispatched.
Settled == fault \/ step > Len(InitOrder)

Event(type, key, was) == [type |-> type, key |-> key, was |-> was]

\* new Navigation(): setupToggle, setupScroll, setupLinks.  Only
\* this.toggle is dereferenced during construction.
ConstructNavigation ==
    /\ Constructing("Navigation")
    /\ IF "navToggle" \in present
       THEN /\ listeners' = listeners \cup {"toggle", "scroll", "links"}
            /\ step' = step + 1
            /\ fault' = FALSE
       ELSE /\ fault' = TRUE
            /\ UNCHANGED <<listeners, step>>
    /\ UNCHANGED <<present, data, lastEvent, menuActive, navTransform, lastScroll, scrollLog,
                   scrollRequest, defaultPrevented, gridVars, timers, formVars,
                   pageVars>>

\* render(): map(toHTML).join('') assigned to innerHTML, then
\* animateOnScroll(): every child found by class gets the hidden style and
\* is handed to the section's observer.
RenderedHTMLReversed(s, records) ==
    Join([i \in 1..Len(records) |-> ToHTML(s, records[Len(records) + 1 - i])])

RenderedHTML(s, records) ==
    Join([i \in 1..Len(records) |-> ToHTML(s, records[i])])

HiddenCards(s, toks) ==
    LET at == QuerySelectorAll(toks, CardClass(s))
    IN  [i \in 1..Len(at) |->
            [at |-> at[i], opacity |-> "0", transform |-> HiddenTransform(s),
             transition |-> "all 0.6s ease"]]

\* this.element.innerHTML = ... with this.element null: a TypeError.
GridFailsNever(s) == FALSE

GridFails(s) == ContainerId(s) \notin present

\* toHTML() reads this.data in a template literal and assigns nothing: the
\* record it ran on holds the fields it held before.
RecordAfterToHTMLClearing(s, record) == [record EXCEPT !.description = ""]

RecordAfterToHTML(s, record) == record

\* The record list after map(toHTML): map builds a new array of strings and
\* leaves the list it ran over in place.
RecordsAfterRender(s, records) ==
    [i \in 1..Len(records) |-> RecordAfterToHTML(s, records[i])]

ConstructGrid(s) ==
    /\ Constructing(RendererOf(s))
    /\ IF ~GridFails(s)
       THEN LET toks == RenderedHTML(s, data[s])
                n == Len(HiddenCards(s, toks))
            IN  /\ data' = [data EXCEPT ![s] = RecordsAfterRender(s, data[s])]
                /\ html' = [html EXCEPT ![s] = toks]
                /\ cards' = [cards EXCEPT ![s] = HiddenCards(s, toks)]
                /\ observed' = [observed EXCEPT ![s] = [i \in 1..n |-> "none"]]
                /\ reported' = [reported EXCEPT ![s] = [i \in 1..n |-> FALSE]]
                /\ callbacks' = callbacks
                /\ listeners' = listeners \cup {s}
                /\ step' = step + 1
                /\ fault' = FALSE
       ELSE /\ fault' = TRUE
            /\ UNCHANGED <<data, gridVars, listeners, step>>
    /\ UNCHANGED <<present, lastEvent, navVars, defaultPrevented, timers,
                   formVars, pageVars>>

ConstructSkillsGrid == ConstructGrid("skills")
ConstructPortfolioGrid == ConstructGrid("portfolio")
ConstructTimeline == ConstructGrid("timeline")

\* new ContactForm(): this.element.addEventListener('submit', ...)
ConstructContactForm ==
    /\ Constructing("ContactForm")
    /\ IF "contactForm" \in present
       THEN /\ listeners' = listeners \cup {"submit"}
            /\ step' = step + 1
            /\ fault' = FALSE
       ELSE /\ fault' = TRUE
            /\ UNCHANGED <<listeners, step>>
    /\ UNCHANGED <<present, data, lastEvent, navVars, defaultPrevented, gridVars,
                   timers, formVars, pageVars>>

\* new ScrollAnimations(): one observer over every '.section'
ConstructScrollAnimations ==
    /\ Constructing("ScrollAnimations")
    /\ listeners' = listeners \cup {"sections"}
    /\ step' = step + 1
    /\ UNCHANGED <<present, data, fault, lastEvent, navVars, defaultPrevented,
                   gridVars, timers, formVars, pageVars>>

Startup ==
    \/ ConstructNavigation
    \/ ConstructSkillsGrid
    \/ ConstructPortfolioGrid
    \/ ConstructTimeline
    \/ ConstructContactForm
    \/ ConstructScrollAnimations

\* ------------------------------------------------------------------------
\* Navigation
\* ------------------------------------------------------------------------
\* toggle click: this.menu.classList.toggle('active')
ToggleClick ==
    /\ Settled
    /\ "toggle" \in listeners
    /\ menuActive' = IF "navMenu" \in present THEN ~menuActive ELSE menuActive
    /\ lastEvent' = Event("toggle", "", menuActive)
    /\ UNCHANGED <<appVars, navTransform, lastScroll, scrollLog, scrollRequest,
                   defaultPrevented, gridVars, timers, formVars, pageVars>>

Hidden == "translateY(-100%)"
Shown == "translateY(0)"

\* The scroll listener of setupScroll, for window.pageYOffset = currentScroll.
HeaderTransformBroken(currentScroll, last) ==
    IF currentScroll <= 0 THEN Shown
    ELSE IF currentScroll > last \/ currentScroll > ScrollThreshold
         THEN Hidden ELSE Shown

HeaderTransform(currentScroll, last) ==
    IF currentScroll <= 0 THEN Shown
    ELSE IF currentScroll > last /\ currentScroll > ScrollThreshold
         THEN Hidden ELSE Shown

NextLastScroll(currentScroll, last) ==
    IF currentScroll <= 0 THEN last ELSE currentScroll

Scroll(currentScroll) ==
    /\ Settled
    /\ "scroll" \in listeners
    /\ Len(scrollLog) < MaxScrolls
    /\ scrollLog' = Append(scrollLog, currentScroll)
    /\ IF "navbar" \in present
       THEN /\ navTransform' = HeaderTransform(currentScroll, lastScroll)
            /\ lastScroll' = NextLastScroll(currentScroll, lastScroll)
       ELSE UNCHANGED <<navTransform, lastScroll>>
    /\ lastEvent' = Event("scroll", "", menuActive)
    /\ UNCHANGED <<appVars, menuActive, scrollRequest, defaultPrevented, gridVars,
                   timers, formVars, pageVars>>

\* The click listener setupLinks puts on every '.nav-link'.
NoRequest == [top |-> 0, behavior |-> "none"]

TargetPositionNoOffset(href) == OffsetTop(href)

TargetPosition(href) == OffsetTop(href) - HeaderOffset

LinkClick(href) ==
    /\ Settled
    /\ "links" \in listeners
    /\ defaultPrevented' = TRUE
    /\ IF QuerySelector(href) # Null
       THEN /\ scrollRequest' = [top |-> TargetPosition(href), behavior |-> "smooth"]
            /\ menuActive' = IF "navMenu" \in present THEN FALSE ELSE menuActive
       ELSE UNCHANGED <<scrollRequest, menuActive>>
    /\ lastEvent' = Event("click", href, menuActive)
    /\ UNCHANGED <<appVars, navTransform, lastScroll, scrollLog, gridVars, timers,
                   formVars, pageVars>>


\* ------------------------------------------------------------------------
\* Initial states
\* ------------------------------------------------------------------------
SkillPool ==
    { Skill("Frontend Development", "Creating interfaces", "palette"),
      Skill("Backend Development", "Building APIs", "gear") }

PortfolioPool ==
    { PortfolioItem("ML Stock Price Predictor", "A model", <<"Python", "Pandas">>, Null),
      PortfolioItem("Weathify", "A web app", <<>>, Null) }

TimelinePool ==
    { TimelineItem("2025 - Present", "Engineer", "Stinger", "Control systems"),
      TimelineItem("2024 - 2025", "Researcher", "Yeditepe", "Chaos theory") }

Pool(s) ==
    CASE s = "skills" -> SkillPool
      [] s = "portfolio" -> PortfolioPool
      [] s = "timeline" -> TimelinePool

SeqsUpTo(S, n) == UNION { [1..k -> S] : k \in 0..n }

\* The lists getSkillsData, getPortfolioData and getTimelineData return,
\* cut to two records each.
DefaultData ==
    [ skills |->
        << Skill("Frontend Development", "Creating interfaces", "palette"),
           Skill("Backend Development", "Building APIs", "gear") >>,
      portfolio |->
        << PortfolioItem("ML Stock Price Predictor", "A model", <<"Python", "Pandas">>, Null),
           PortfolioItem("Weathify", "A web app", <<>>, Null) >>,
      timeline |->
        << TimelineItem("2025 - Present", "Engineer", "Stinger", "Control systems"),
           TimelineItem("2024 - 2025", "Researcher", "Yeditepe", "Chaos theory") >> ]

\* What a container may hold before its renderer runs.
PriorContents ==
    { <<>>, << Open("p", {"placeholder"}), Text("Loading"), Close("p") >> }

PageSections == 1..NumPageSections

FieldNames == {"name", "email", "message"}
FieldDefault == ""
FieldValues == {"", "A"}

\* The markup gives no page section the marker class, and leaves the menu
\* closed.
SectionInitiallyMarked == FALSE
MenuInitiallyActive == FALSE

InitWith(p, d, prior) ==
    /\ present = p
    /\ data = d
    /\ html = prior
    /\ step = 1
    /\ fault = FALSE
    /\ listeners = {}
    /\ lastEvent = Event("load", "", FALSE)
    /\ menuActive = MenuInitiallyActive
    /\ navTransform = ""
    /\ lastScroll = 0
    /\ scrollLog = <<>>
    /\ scrollRequest = NoRequest
    /\ defaultPrevented = FALSE
    /\ cards = [s \in Sections |-> <<>>]
    /\ observed = [s \in Sections |-> <<>>]
    /\ reported = [s \in Sections |-> <<>>]
    /\ callbacks = 0
    /\ timers = {}
    /\ fields = [f \in FieldNames |-> FieldDefault]
    /\ banners = <<>>
    /\ submits = {}
    /\ sectionMarked = [x \in PageSections |-> SectionInitiallyMarked]
    /\ sectionObserved = [x \in PageSections |-> "none"]
    /\ sectionSeen = [x \in PageSections |-> FALSE]

Init == InitWith(AllElements, DefaultData, [s \in Sections |-> <<>>])

\* ------------------------------------------------------------------------
\* Navigation alone
\* ------------------------------------------------------------------------
NextNav ==
    \/ Startup
    \/ ToggleClick
    \/ \E currentScroll \in ScrollOffsets : Scroll(currentScroll)
    \/ \E href \in NavLinks : LinkClick(href)

SpecNav == Init /\ [][NextNav]_vars

HeaderHidden == navTransform = Hidden

PreviousOffset == IF Len(scrollLog) > 1 THEN scrollLog[Len(scrollLog) - 1] ELSE 0

\* C1: after every scroll event with a positive offset the header is hidden
\* exactly when that offset exceeds both the offset of the immediately
\* preceding scroll event (0 before the first) and the 100-unit threshold.
C1_HiddenIffDownPastThreshold ==
    (Len(scrollLog) > 0 /\ scrollLog[Len(scrollLog)] > 0)
        => (HeaderHidden <=>
                (/\ scrollLog[Len(scrollLog)] > PreviousOffset
                 /\ scrollLog[Len(scrollLog)] > ScrollThreshold))

\* C2: from a fresh Navigation the offsets 0, 50, 150, 120 leave the header
\* visible, visible, hidden, visible.
C2Offsets == <<0, 50, 150, 120>>
C2Hidden == <<FALSE, FALSE, TRUE, FALSE>>

C2_SequenceVisibility ==
    (/\ Len(scrollLog) \in 1..Len(C2Offsets)
     /\ scrollLog = SubSeq(C2Offsets, 1, Len(scrollLog)))
        => (HeaderHidden <=> C2Hidden[Len(scrollLog)])

C2_Witness ==
    /\ scrollLog = C2Offsets
    /\ ~HeaderHidden

\* C6: a click on a link whose href selects an element prevents the default
\* navigation, requests a smooth scroll to the element's offsetTop minus 80
\* and leaves the menu closed; a click on a link that selects nothing
\* requests no scroll and leaves the menu as it was.
C6_LinkClick ==
    [][\A href \in NavLinks :
         LinkClick(href) =>
            /\ defaultPrevented'
            /\ IF QuerySelector(href) # Null
               THEN /\ scrollRequest' = [top |-> OffsetTop(href) - 80, behavior |-> "smooth"]
                    /\ ~menuActive'
               ELSE /\ scrollRequest' = scrollRequest
                    /\ menuActive' = menuActive]_vars

C6_Witness ==
    /\ lastEvent.type = "click"
    /\ lastEvent.key = "#skills"
    /\ lastEvent.was
    /\ ~menuActive
    /\ scrollRequest = [top |-> 560, behavior |-> "smooth"]


\* ------------------------------------------------------------------------
\* Timers (setTimeout) and the passing of time
\* ------------------------------------------------------------------------
\* A pending callback: what it will do (kind), to which element (sec,
\* target), and the delay left.  pos and elapsed are history: the index the
\* callback was scheduled under and the time since it was scheduled.
Timer(kind, sec, target, delay, pos) ==
    [kind |-> kind, sec |-> sec, target |-> target, remaining |-> delay,
     pos |-> pos, elapsed |-> 0]

RECURSIVE GCD(_, _)
GCD(a, b) == IF b = 0 THEN a ELSE GCD(b, a % b)

DisplayTime == BannerDelay + FadeDelay

\* d time units pass.  No timer is overdue: the host runs a callback when
\* its delay has elapsed.
Advance(d) ==
    /\ Settled
    /\ timers # {} \/ submits # {}
    /\ \A t \in timers : t.remaining >= d
    /\ timers' = { [t EXCEPT !.remaining = @ - d, !.elapsed = @ + d] : t \in timers }
    /\ submits' = { [r EXCEPT !.age = @ + d] : r \in {q \in submits : q.age + d <= DisplayTime} }
    /\ UNCHANGED <<appVars, lastEvent, navVars, defaultPrevented, gridVars, fields,
                   banners, pageVars>>

\* ------------------------------------------------------------------------
\* ContactForm
\* ------------------------------------------------------------------------
BannerIds == { banners[i].id : i \in 1..Len(banners) }

FreeIds == (1..MaxBanners) \ (BannerIds \cup { r.id : r \in submits })

\* The user edits an input.
TypeField(f, v) ==
    /\ Settled
    /\ f \in present
    /\ fields[f] # v
    /\ fields' = [fields EXCEPT ![f] = v]
    /\ lastEvent' = Event("input", f, FALSE)
    /\ UNCHANGED <<appVars, navVars, defaultPrevented, gridVars, timers, banners,
                   submits, pageVars>>

\* showMessage: the banner is appended and its first timer started.
ShowMessage(id) ==
    /\ banners' = Append(banners, [id |-> id, animation |-> "fadeIn 0.3s ease"])
    /\ timers' = timers \cup {Timer("fadeOut", "form", id, BannerDelay, 0)}

\* handleSubmit: preventDefault, read the three inputs, console.log (no
\* state), showMessage, this.element.reset().
Submit ==
    /\ Settled
    /\ "submit" \in listeners
    /\ FreeIds # {}
    /\ defaultPrevented' = TRUE
    /\ lastEvent' = Event("submit", "", \E f \in FieldNames : fields[f] # FieldDefault)
    /\ IF FieldNames \subseteq present
       THEN LET id == CHOOSE x \in FreeIds : \A y \in FreeIds : x <= y
            IN  /\ ShowMessage(id)
                /\ submits' = submits \cup {[id |-> id, age |-> 0]}
                /\ fields' = [f \in FieldNames |-> FieldDefault]
       ELSE UNCHANGED <<banners, timers, submits, fields>>
    /\ UNCHANGED <<appVars, navVars, gridVars, pageVars>>

\* The outer callback of showMessage: start the fade-out and schedule the
\* removal.
FadeOutNoDelay(t) ==
    /\ banners' = SelectSeq(banners, LAMBDA b : b.id # t.target)
    /\ timers' = timers \ {t}

FadeOut(t) ==
    /\ banners' = [j \in 1..Len(banners) |->
                     IF banners[j].id = t.target
                     THEN [banners[j] EXCEPT !.animation = "fadeOut 0.3s ease"]
                     ELSE banners[j]]
    /\ timers' = (timers \ {t}) \cup {Timer("remove", "form", t.target, FadeDelay, 0)}

\* The inner callback: messageDiv.remove().
RemoveBanner(t) ==
    /\ banners' = SelectSeq(banners, LAMBDA b : b.id # t.target)
    /\ timers' = timers \ {t}

FormTimer(t) ==
    /\ Settled
    /\ t.sec = "form"
    /\ t.remaining = 0
    /\ IF t.kind = "fadeOut" THEN FadeOut(t) ELSE RemoveBanner(t)
    /\ UNCHANGED <<appVars, lastEvent, navVars, defaultPrevented, gridVars, fields,
                   submits, pageVars>>

FormQuantum == GCD(BannerDelay, FadeDelay)

NextForm ==
    \/ Startup
    \/ \E f \in FieldNames, v \in FieldValues : TypeField(f, v)
    \/ Submit
    \/ \E t \in timers : FormTimer(t)
    \/ Advance(FormQuantum)

SpecForm == Init /\ [][NextForm]_vars

AgeOf(id) == (CHOOSE r \in submits : r.id = id).age

FormTimersFor(id) ==
    { t \in timers : t.sec = "form" /\ t.target = id }

\* C3: every submit, whatever the fields hold, clears the three fields and
\* adds exactly one banner; the banner shows for 3000 units, fades for 300
\* more and is removed by the timer that falls due 3300 units after the
\* submit, so the banners in the form are those of the submits of the last
\* 3300 units, and none is left once no submit is that recent.
C3_BannerLifetime ==
    /\ lastEvent.type = "submit" => \A f \in FieldNames : fields[f] = FieldDefault
    /\ Len(banners) = Cardinality(BannerIds)
    /\ BannerIds \subseteq { r.id : r \in submits }
    /\ \A r \in submits :
         /\ r.age < 3300 => r.id \in BannerIds
         /\ r.id \in BannerIds =>
              /\ Cardinality(FormTimersFor(r.id)) = 1
              /\ \A t \in FormTimersFor(r.id) :
                   /\ t.kind = "fadeOut" => t.remaining = 3000 - r.age
                   /\ t.kind = "remove" => t.remaining = 3300 - r.age
         /\ r.id \notin BannerIds => FormTimersFor(r.id) = {}
    /\ \A j \in 1..Len(banners) :
         /\ AgeOf(banners[j].id) < 3000 => banners[j].animation = "fadeIn 0.3s ease"
         /\ AgeOf(banners[j].id) > 3000 => banners[j].animation = "fadeOut 0.3s ease"
    /\ submits = {} => banners = <<>>

C3_Witness ==
    /\ \E r \in submits : r.age = 3300 /\ r.id \notin BannerIds
    /\ \E r \in submits : r.age < 3000 /\ r.id \in BannerIds


\* ------------------------------------------------------------------------
\* IntersectionObserver callbacks
\* ------------------------------------------------------------------------
\* The entries one callback receives: the targets whose intersection state
\* changed since the last report, in the order they were observed.  The
\* first report covers every target; later ones carry each target's flipped
\* state.  `last` is what the observer reported before, per target.
RECURSIVE Ascending(_)
Ascending(S) ==
    IF S = {} THEN <<>>
    ELSE LET lo == CHOOSE x \in S : \A y \in S : x <= y
         IN  <<lo>> \o Ascending(S \ {lo})

Batches(last) ==
    LET targets == DOMAIN last
        fresh == \E c \in targets : last[c] = "none"
    IN  { B \in SUBSET targets : B # {} /\ (fresh => B = targets) }

EntryStates(last, B) ==
    { st \in [B -> BOOLEAN] :
        \A c \in B : /\ last[c] = "in" => ~st[c]
                     /\ last[c] = "out" => st[c] }

Entries(B, st) ==
    LET order == Ascending(B)
    IN  [k \in 1..Len(order) |-> [target |-> order[k], isIntersecting |-> st[order[k]]]]

Reported(last, entries) ==
    [c \in DOMAIN last |->
        IF \E k \in 1..Len(entries) : entries[k].target = c
        THEN LET k == CHOOSE j \in 1..Len(entries) : entries[j].target = c
             IN  IF entries[k].isIntersecting THEN "in" ELSE "out"
        ELSE last[c]]

Intersecting(entries) ==
    { entries[k].target : k \in { j \in 1..Len(entries) : entries[j].isIntersecting } }

\* ------------------------------------------------------------------------
\* ScrollAnimations
\* ------------------------------------------------------------------------
\* entry.target.classList after the callback has handled the entry.
MarkedAfterToggle(marked, isIntersecting) == isIntersecting

MarkedAfter(marked, isIntersecting) == marked \/ isIntersecting

SectionsCallback(entries) ==
    /\ Settled
    /\ "sections" \in listeners
    /\ sectionMarked' =
         [x \in PageSections |->
            IF \E k \in 1..Len(entries) : entries[k].target = x
            THEN LET k == CHOOSE j \in 1..Len(entries) : entries[j].target = x
                 IN  MarkedAfter(sectionMarked[x], entries[k].isIntersecting)
            ELSE sectionMarked[x]]
    /\ sectionObserved' = Reported(sectionObserved, entries)
    /\ sectionSeen' = [x \in PageSections |->
                         sectionSeen[x] \/ x \in Intersecting(entries)]
    /\ UNCHANGED <<appVars, lastEvent, navVars, defaultPrevented, gridVars, timers,
                   formVars>>

NextSections ==
    \/ Startup
    \/ \E B \in Batches(sectionObserved) :
         \E st \in EntryStates(sectionObserved, B) : SectionsCallback(Entries(B, st))

SpecSections == Init /\ [][NextSections]_vars

\* C4: a page section carries the marker class exactly from its first
\* report as intersecting on: absent before, present in every later state,
\* whatever exits and re-entries follow.
C4_MarkedOnceSeen ==
    \A x \in PageSections : sectionMarked[x] <=> sectionSeen[x]

C4_Witness ==
    /\ \E x \in PageSections : sectionMarked[x] /\ sectionObserved[x] = "out"
    /\ \E x \in PageSections : ~sectionMarked[x] /\ sectionObserved[x] = "out"
    /\ \E x \in PageSections : sectionMarked[x] /\ sectionObserved[x] = "in"


\* ------------------------------------------------------------------------
\* Section renderers: render
\* ------------------------------------------------------------------------
InitRender ==
    \E d \in [Sections -> UNION { SeqsUpTo(Pool(s), MaxRecords) : s \in Sections }] :
      \E prior \in PriorContents :
        /\ \A s \in Sections : d[s] \in SeqsUpTo(Pool(s), MaxRecords)
        /\ InitWith(AllElements, d, [s \in Sections |-> prior])

SpecRender == InitRender /\ [][Startup]_vars

\* The element of a record's fragment: the fragment without the white space
\* around it.
FragmentElement(s, record) ==
    SubSeq(ToHTML(s, record), 2, Len(ToHTML(s, record)) - 1)

\* C5: once a renderer has run, its container holds exactly one child per
\* record, the i-th child being the markup of the i-th record, and nothing
\* of what it held before; the observed children are these children.
C5_RenderKeepsOrder ==
    \A s \in Sections :
        s \in listeners =>
            LET kids == Children(html[s])
            IN  /\ Len(kids) = Len(data[s])
                /\ \A i \in 1..Len(kids) :
                     OuterHTML(html[s], kids[i]) = FragmentElement(s, data[s][i])
                /\ Len(cards[s]) = Len(kids)
                /\ \A i \in 1..Len(kids) : cards[s][i].at = kids[i].from

C5_Witness ==
    /\ "skills" \in listeners
    /\ "portfolio" \notin listeners
    /\ Children(html["portfolio"]) # <<>>
    /\ Len(data["skills"]) = 2
    /\ data["skills"][1] # data["skills"][2]
    /\ Len(Children(html["skills"])) = 2


\* ------------------------------------------------------------------------
\* Section renderers: animateOnScroll
\* ------------------------------------------------------------------------
\* setTimeout(..., index * step), index being the entry's index in the
\* entries the callback received.
RevealDelayNoStagger(s, index) == 0

RevealDelay(s, index) == index * Step(s)

\* The timers one callback starts: one per intersecting entry.
Scheduled(s, entries) ==
    { Timer("reveal", s, entries[k].target, RevealDelay(s, k - 1), k - 1) :
        k \in { j \in 1..Len(entries) : entries[j].isIntersecting } }

\* Nothing clears a pending timer: the callback only adds.
PendingAfterCancelling(s, entries) ==
    { t \in timers :
        ~(/\ t.sec = s
          /\ \E k \in 1..Len(entries) :
                entries[k].target = t.target /\ ~entries[k].isIntersecting) }
    \cup Scheduled(s, entries)

PendingAfter(s, entries) == timers \cup Scheduled(s, entries)

GridCallback(s, entries) ==
    /\ Settled
    /\ s \in listeners
    /\ callbacks < MaxCallbacks
    /\ callbacks' = callbacks + 1
    /\ timers' = PendingAfter(s, entries)
    /\ observed' = [observed EXCEPT ![s] = Reported(observed[s], entries)]
    /\ reported' = [reported EXCEPT ![s] =
                      [c \in DOMAIN reported[s] |->
                          reported[s][c] \/ c \in Intersecting(entries)]]
    /\ UNCHANGED <<appVars, lastEvent, navVars, defaultPrevented, html, cards,
                   formVars, pageVars>>

\* The timer callback: entry.target.style.opacity = '1' and the identity
\* transform.
RevealedStyle(s, card) ==
    [card EXCEPT !.opacity = "1", !.transform = VisibleTransform(s)]

\* entry.target is the one element the callback writes to.
CardsAfterRevealByIndex(t) ==
    [s \in Sections |->
        [c \in DOMAIN cards[s] |->
            IF c = t.target THEN RevealedStyle(s, cards[s][c]) ELSE cards[s][c]]]

CardsAfterReveal(t) ==
    [cards EXCEPT ![t.sec][t.target] = RevealedStyle(t.sec, @)]

RevealTimer(t) ==
    /\ Settled
    /\ t.sec \in Sections
    /\ t.remaining = 0
    /\ cards' = CardsAfterReveal(t)
    /\ timers' = timers \ {t}
    /\ UNCHANGED <<appVars, lastEvent, navVars, defaultPrevented, html, observed,
                   reported, callbacks, formVars, pageVars>>

RevealQuantum == GCD(GCD(SkillStep, PortfolioStep), TimelineStep)

ObserverFires(s) ==
    \E B \in Batches(observed[s]) :
        \E st \in EntryStates(observed[s], B) : GridCallback(s, Entries(B, st))

NextAnim ==
    \/ Startup
    \/ \E s \in Sections : ObserverFires(s)
    \/ \E t \in timers : RevealTimer(t)
    \/ Advance(RevealQuantum)

SpecAnim == Init /\ [][NextAnim]_vars

CardVisible(s, c) ==
    /\ c \in DOMAIN cards[s]
    /\ cards[s][c].opacity = "1"
    /\ cards[s][c].transform = VisibleTransform(s)

CardHidden(s, c) ==
    /\ c \in DOMAIN cards[s]
    /\ cards[s][c].opacity = "0"
    /\ cards[s][c].transform = HiddenTransform(s)


\* The step each section claims for its stagger.
C7Step(s) ==
    CASE s = "skills" -> 100
      [] s = "portfolio" -> 150
      [] s = "timeline" -> 200

CardsStartHidden ==
    \A s \in Sections : \A c \in DOMAIN cards[s] :
        /\ CardHidden(s, c) \/ CardVisible(s, c)
        /\ CardVisible(s, c) => reported[s][c]

OnlyTimersReveal ==
    \A s \in Sections : \A c \in DOMAIN cards[s] :
        (CardHidden(s, c) /\ ~CardHidden(s, c)') =>
            \E t \in timers : t.sec = s /\ t.target = c /\ RevealTimer(t)

\* C7 as claimed: every rendered child starts hidden and becomes visible
\* only after it was reported as intersecting, by a timer that runs (the
\* child's index among the rendered children) x (the section's step) after
\* the report.
C7_DelayByRenderedIndex ==
    /\ []CardsStartHidden
    /\ [][/\ OnlyTimersReveal
          /\ \A t \in timers :
               RevealTimer(t) =>
                 /\ CardVisible(t.sec, t.target)'
                 /\ t.elapsed = (t.target - 1) * C7Step(t.sec)]_vars

\* C7 as amended: the delay is (the entry's index among the entries of the
\* callback that reported the child) x (the section's step).
C7_DelayByEntryIndex ==
    /\ []CardsStartHidden
    /\ [][/\ OnlyTimersReveal
          /\ \A t \in timers :
               RevealTimer(t) =>
                 /\ CardVisible(t.sec, t.target)'
                 /\ t.elapsed = t.pos * C7Step(t.sec)]_vars

C7_Witness ==
    /\ CardVisible("timeline", 1)
    /\ CardVisible("timeline", 2)
    /\ CardVisible("portfolio", 2)
    /\ CardHidden("portfolio", 1)
    /\ \E t \in timers : t.sec = "skills" /\ t.pos = 1 /\ t.elapsed = 50

\* ------------------------------------------------------------------------
\* The event loop's guarantees: a due callback runs, time passes
\* ------------------------------------------------------------------------
SpecAnimFair ==
    /\ SpecAnim
    /\ WF_vars(\E t \in timers : RevealTimer(t))
    /\ WF_vars(Advance(RevealQuantum))

AllReportedVisible ==
    \A s \in Sections : \A c \in DOMAIN cards[s] :
        reported[s][c] => CardVisible(s, c)

StillPending(t) ==
    \E u \in timers' :
        /\ u.kind = t.kind /\ u.sec = t.sec /\ u.target = t.target /\ u.pos = t.pos
        /\ u.remaining <= t.remaining
        /\ u.elapsed - t.elapsed = t.remaining - u.remaining

\* C8: no pending timer is dropped before it runs; a child once reported as
\* intersecting becomes visible, also when it has left the viewport in the
\* meantime; a visible child stays visible.  (reported only grows, so "every
\* reported child is eventually visible" is "again and again, all reported
\* children are visible".)
C8_RevealRunsToCompletion ==
    /\ [][\A t \in timers : StillPending(t) \/ (t.remaining = 0 /\ RevealTimer(t))]_vars
    /\ []<>AllReportedVisible
    /\ [][\A s \in Sections : \A c \in DOMAIN cards[s] :
            CardVisible(s, c) => CardVisible(s, c)']_vars

C8_Witness ==
    \E s \in Sections : \E c \in DOMAIN cards[s] :
        /\ observed[s][c] = "out"
        /\ CardVisible(s, c)
        /\ \E d \in DOMAIN cards[s] :
             /\ observed[s][d] = "out"
             /\ reported[s][d]
             /\ CardHidden(s, d)
             /\ \E t \in timers : t.sec = s /\ t.target = d /\ t.elapsed > 0

\* ------------------------------------------------------------------------
\* Reveal timers next to the rest of the page
\* ------------------------------------------------------------------------
NextPage ==
    \/ NextAnim
    \/ ToggleClick

SpecPage == Init /\ [][NextPage]_vars

\* A step in which the due reveal timer t has run.
Ran(t) == t.sec \in Sections /\ t.remaining = 0 /\ timers' = timers \ {t}

\* C9: a reveal timer that runs changes the style of its own target and
\* nothing else: no other child of any section, no markup, nothing of the
\* header, the menu or the form; and whatever the order the timers ran in,
\* once none is pending the visible children are exactly the children that
\* were reported as intersecting.
C9_TimersAreLocal ==
    /\ [][\A t \in timers :
            Ran(t) =>
              /\ \A s \in Sections : \A c \in DOMAIN cards[s] :
                   (s # t.sec \/ c # t.target) => cards'[s][c] = cards[s][c]
              /\ cards'[t.sec][t.target].at = cards[t.sec][t.target].at
              /\ html' = html
              /\ UNCHANGED <<navVars, defaultPrevented, fields, banners, sectionMarked>>]_vars
    /\ [](timers = {} =>
            \A s \in Sections : \A c \in DOMAIN cards[s] :
                CardVisible(s, c) <=> reported[s][c])

C9_Witness ==
    /\ menuActive
    /\ CardVisible("skills", 2)
    /\ CardHidden("skills", 1)
    /\ CardHidden("portfolio", 2)
    /\ \E u \in timers : u.sec = "portfolio" /\ u.target = 2 /\ u.remaining = 0 /\ u.pos = 1

\* ------------------------------------------------------------------------
\* Records
\* ------------------------------------------------------------------------
\* A step in which the renderer of section s has run.
Rendered(s) == s \notin listeners /\ s \in listeners'

\* C11: after startup every record holds the field values it was
\* constructed with; the conversions a renderer makes change no record,
\* and nothing besides what the renderer itself assigns (its own container
\* and the children it observes); and converting the records again, in any
\* later state of the run, yields the markup the renderer got from them.
C11_RecordsNeverChange ==
    /\ [](data = DefaultData)
    /\ [][\A s \in Sections :
            Rendered(s) =>
              /\ data' = data
              /\ \A t \in Sections \ {s} :
                   /\ html'[t] = html[t]
                   /\ cards'[t] = cards[t]
              /\ UNCHANGED <<navVars, defaultPrevented, timers, formVars, pageVars>>]_vars
    /\ [](\A s \in Sections :
            s \in listeners => RenderedHTML(s, data[s]) = html[s])

C11_Witness ==
    /\ Settled
    /\ ~fault
    /\ menuActive
    /\ CardVisible("portfolio", 1)
    /\ callbacks > 1
    /\ \E i \in DOMAIN html["portfolio"] : html["portfolio"][i] = Text("Pandas")
    /\ data["portfolio"][1].tags = <<"Python", "Pandas">>


\* ------------------------------------------------------------------------
\* Startup in a document that lacks some of the expected elements
\* ------------------------------------------------------------------------
Optional ==
    {"navbar", "navToggle", "navMenu", "skillsGrid", "portfolioGrid",
     "timeline", "contactForm"}

InitMissing ==
    \E absent \in SUBSET Optional :
      \E prior \in PriorContents :
        InitWith(AllElements \ absent, DefaultData, [s \in Sections |-> prior])

NextMissing ==
    \/ Startup
    \/ ToggleClick
    \/ \E href \in NavLinks : LinkClick(href)

SpecMissing == InitMissing /\ [][NextMissing]_vars

\* What each constructor registers.
ListenersOf(component) ==
    CASE component = "Navigation" -> {"toggle", "scroll", "links"}
      [] component = "SkillsGrid" -> {"skills"}
      [] component = "PortfolioGrid" -> {"portfolio"}
      [] component = "Timeline" -> {"timeline"}
      [] component = "ContactForm" -> {"submit"}
      [] component = "ScrollAnimations" -> {"sections"}

Place(s) == PositionOf(RendererOf(s))

\* C10: with the container of a section renderer absent, constructing the
\* renderer faults; init never gets past it, so no component from it on is
\* ever initialised; nothing recovers, and what was initialised before it
\* keeps its listeners and its rendered content.
C10_MissingContainerStopsInit ==
    /\ [](\A s \in Sections :
            ContainerId(s) \notin present =>
              /\ step <= Place(s)
              /\ \A k \in Place(s)..Len(InitOrder) :
                   ListenersOf(InitOrder[k]) \cap listeners = {}
              /\ \A r \in Sections :
                   Place(r) >= Place(s) => cards[r] = <<>> /\ html[r] \in PriorContents
              /\ (fault /\ step = Place(s)) =>
                   /\ \A k \in 1..(Place(s) - 1) :
                        ListenersOf(InitOrder[k]) \subseteq listeners
                   /\ \A r \in Sections :
                        Place(r) < Place(s) =>
                          /\ Len(Children(html[r])) = Len(data[r])
                          /\ Len(cards[r]) = Len(data[r]))
    /\ [][\A s \in Sections :
            (ContainerId(s) \notin present /\ Constructing(RendererOf(s))) => fault']_vars
    /\ [][fault => (fault' /\ step' = step /\ listeners' = listeners /\ html' = html
                    /\ cards' = cards)]_vars

C10_Witness ==
    /\ fault
    /\ present = AllElements \ {"portfolioGrid"}
    /\ step = Place("portfolio")
    /\ listeners = {"toggle", "scroll", "links", "skills"}
    /\ Len(Children(html["skills"])) = 2
    /\ Children(html["portfolio"]) # <<>>
    /\ menuActive
    /\ lastEvent.type = "toggle"


\* ------------------------------------------------------------------------
\* The whole page
\* ------------------------------------------------------------------------
Next ==
    \/ NextNav
    \/ NextForm
    \/ NextSections
    \/ NextAnim

Spec == Init /\ [][Next]_vars

=============================================================================
